---- MODULE Spec2Model ----
(***************************************************************************)
(* Recurring invoice scheduling and financial dashboard of src/app.py:     *)
(* ensure_future_invoices, get_financial_dashboard, pay_monthly,           *)
(* pay_annual and the invoice branches of mercadopago_webhook.             *)
(*                                                                         *)
(* Money is counted in thousandths of the currency unit: an amount         *)
(* DECIMAL(10,2) is a multiple of 10, and 90% of a sum of amounts is a     *)
(* whole number.  The binary rounding of float, below 1e-12 here, is left  *)
(* out.  A calendar date is a record                                       *)
(* [year, month, day]; the proleptic Gregorian ordinal of datetime.date is *)
(* computed by ToOrdinal.                                                   *)
(***************************************************************************)
EXTENDS Integers, Sequences, FiniteSets, TLC

VARIABLES
    invoices,     \* table invoices: row id -> row (id SERIAL = index)
    orders,       \* table orders, per client, in ascending id order
    products,     \* table products: row id -> row
    clock,        \* index of the current day in Days
    deliveries,   \* number of payment notifications committed so far
    notified,     \* references of the payments notified so far
    lastOp,       \* the step taken last: the request served and what it returned
    passQueue,    \* dashboard pass under study: rows still to classify
    passInfo,     \* dashboard pass under study: info built so far
    passToday,    \* dashboard pass under study: date.today()
    briefings,    \* table briefings, per client
    tx,           \* handler calls in progress side by side, each in its transaction
    quoted,       \* per client, the invoices of the last annual quote
    checkedOut    \* connections taken from the pool and not returned

vars == <<invoices, orders, products, clock, deliveries, notified, lastOp,
          passQueue, passInfo, passToday, briefings, tx, quoted, checkedOut>>

-----------------------------------------------------------------------------
(* Bounds of the model                                                     *)

MaxDeliveries == 2
MaxInvoices == 24
MaxPass == 3
MaxOrders == 3

(* Program constants                                                       *)

WINDOW == 12
GRACE_DAYS == 30
DUE_DAY == 10
TOLERANCE == 3
POOL_MAX == 20


-----------------------------------------------------------------------------
(* datetime.date                                                           *)

Date(y, m, d) == [year |-> y, month |-> m, day |-> d]

IsLeap(y) == (y % 4 = 0) /\ ((y % 100 # 0) \/ (y % 400 = 0))

DaysInMonth(y, m) ==
    IF m = 2 THEN (IF IsLeap(y) THEN 29 ELSE 28)
    ELSE IF m \in {4, 6, 9, 11} THEN 30 ELSE 31

\* days of the year that precede the first day of month m
DaysBeforeMonth(y, m) ==
    << 0, 31, 59, 90, 120, 151, 181, 212, 243, 273, 304, 334 >>[m]
    + (IF m > 2 /\ IsLeap(y) THEN 1 ELSE 0)

DaysBeforeYear(y) ==
    LET p == y - 1 IN p * 365 + (p \div 4) - (p \div 100) + (p \div 400)

ToOrdinal(d) == DaysBeforeYear(d.year) + DaysBeforeMonth(d.year, d.month) + d.day

\* the date of day number "day" counted from the first of month m of year y
RECURSIVE Normalize(_, _, _)
Normalize(y, m, day) ==
    IF day <= DaysInMonth(y, m) THEN Date(y, m, day)
    ELSE IF m < 12 THEN Normalize(y, m + 1, day - DaysInMonth(y, m))
    ELSE Normalize(y + 1, 1, day - DaysInMonth(y, m))

\* d + timedelta(days=n), n >= 0
AddDays(d, n) == Normalize(d.year, d.month, d.day + n)

\* d1 < d2 on dates
DateLT(d1, d2) ==
    \/ d1.year < d2.year
    \/ d1.year = d2.year /\ d1.month < d2.month
    \/ d1.year = d2.year /\ d1.month = d2.month /\ d1.day < d2.day

\* (d1 - d2).days
DaysBetween(d1, d2) == ToOrdinal(d1) - ToOrdinal(d2)

-----------------------------------------------------------------------------
(* The days on which requests arrive, in order                             *)

Days == << Date(2024, 3, 10), Date(2024, 3, 13), Date(2024, 3, 14) >>

Today == Days[clock]

\* SQL NULL of orders.product_id, of orders.created_at and of invoices.paid_at
NoProduct == 0
NoDate == Date(0, 0, 0)
NoTime == 0

(* Catalogues and order histories the subscribers are drawn from           *)

Product(price, active) == [price_monthly |-> price, is_active |-> active]

Order(tm, pid, dt) == [total_monthly |-> tm, product_id |-> pid, order_date |-> dt]

\* an active product with a price, and a retired one
CatalogA == << Product(7000, TRUE), Product(5000, FALSE) >>
\* no active product has a price
CatalogB == << Product(0, TRUE), Product(5000, FALSE) >>

\* one order with its own recurring amount
HOwn == << Order(10000, 1, Date(2024, 1, 15)) >>
\* one order priced by its linked product
HLinked == << Order(0, 2, Date(2024, 1, 11)) >>
\* an order without price, then an add-on order with its own amount
HSecond == << Order(0, NoProduct, Date(2023, 12, 5)),
              Order(3330, NoProduct, Date(2023, 12, 11)) >>
\* one order that yields no price
HUnpriced == << Order(0, NoProduct, Date(2023, 11, 15)) >>
Scenario(prods, os) == [products |-> prods, orders |-> os]

Scenarios ==
    { Scenario(CatalogA, 1 :> HOwn),
      Scenario(CatalogB, 1 :> HSecond),
      Scenario(CatalogA, 1 :> << >>),
      Scenario(CatalogB, 1 :> HUnpriced) }

\* the subscribers
Clients == DOMAIN orders

-----------------------------------------------------------------------------
(* ensure_future_invoices                                                  *)

\* LEFT JOIN products p ON o.product_id = p.id: p.price_monthly, NULL -> 0
LinkedPrice(prods, o) ==
    IF o.product_id \in 1..Len(prods) THEN prods[o.product_id].price_monthly ELSE 0

\* the scan testing the linked product's price before the order's own amount
RECURSIVE ScanOrdersProductFirst(_, _, _, _)
ScanOrdersProductFirst(os, prods, i, fod) ==
    IF i > Len(os) THEN [monthly_price |-> 0, first_order_date |-> fod]
    ELSE LET o == os[i]
             val_order == o.total_monthly
             val_product == LinkedPrice(prods, o)
             f == IF o.order_date # NoDate THEN o.order_date ELSE fod
         IN  IF val_product > 0
             THEN [monthly_price |-> val_product, first_order_date |-> f]
             ELSE IF val_order > 0
                  THEN [monthly_price |-> val_order, first_order_date |-> f]
                  ELSE ScanOrdersProductFirst(os, prods, i + 1, f)

\* the scan keeping the date of the first order it meets
RECURSIVE ScanOrdersFirstDate(_, _, _, _)
ScanOrdersFirstDate(os, prods, i, fod) ==
    IF i > Len(os) THEN [monthly_price |-> 0, first_order_date |-> fod]
    ELSE LET o == os[i]
             val_order == o.total_monthly
             val_product == LinkedPrice(prods, o)
             f == IF o.order_date # NoDate /\ i = 1 THEN o.order_date ELSE fod
         IN  IF val_order > 0 THEN [monthly_price |-> val_order, first_order_date |-> f]
             ELSE IF val_product > 0
                  THEN [monthly_price |-> val_product, first_order_date |-> f]
                  ELSE ScanOrdersFirstDate(os, prods, i + 1, f)

\* for o in orders: ... (from order i on, with the first_order_date so far)
RECURSIVE ScanOrders(_, _, _, _)
ScanOrders(os, prods, i, fod) ==
    IF i > Len(os) THEN [monthly_price |-> 0, first_order_date |-> fod]
    ELSE LET o == os[i]
             val_order == o.total_monthly
             val_product == LinkedPrice(prods, o)
             f == IF o.order_date # NoDate THEN o.order_date ELSE fod
         IN  IF val_order > 0 THEN [monthly_price |-> val_order, first_order_date |-> f]
             ELSE IF val_product > 0
                  THEN [monthly_price |-> val_product, first_order_date |-> f]
                  ELSE ScanOrders(os, prods, i + 1, f)

\* rows SELECT price_monthly FROM products WHERE is_active AND price_monthly > 0
\* may return with LIMIT 1 (0: no row)
DefaultProds(prods) ==
    LET match == {p \in 1..Len(prods) : prods[p].is_active /\ prods[p].price_monthly > 0}
    IN  IF match = {} THEN {0} ELSE match

\* monthly_price and first_order_date after step 2 and step 3
PriceBasis(os, prods, today, default_prod) ==
    LET s == ScanOrders(os, prods, 1, today)
    IN  IF s.monthly_price <= 0 /\ default_prod # 0
        THEN [s EXCEPT !.monthly_price = prods[default_prod].price_monthly]
        ELSE s

\* the rows of a table of invoices, each with its id
Rows(invs) ==
    [i \in 1..Len(invs) |->
        [id |-> i, client_id |-> invs[i].client_id, amount |-> invs[i].amount,
         due_date |-> invs[i].due_date, status |-> invs[i].status]]

\* FROM invoices WHERE client_id = %s AND status = 'pending', as set of ids
PendingOf(invs, c) ==
    {i \in 1..Len(invs) : invs[i].client_id = c /\ invs[i].status = "pending"}

\* SELECT COUNT(*) ... WHERE client_id = %s AND status = 'pending', with
\* the status filter forgotten
CountPendingAnyStatus(invs, c) ==
    Cardinality({i \in 1..Len(invs) : invs[i].client_id = c})

\* SELECT COUNT(*) ... WHERE client_id = %s AND status = 'pending'
CountPending(invs, c) == Cardinality(PendingOf(invs, c))

\* FROM invoices WHERE client_id = %s, restricted to status = 'pending'
\* as the count is
ClientRowsPendingOnly(invs, c) ==
    SelectSeq(Rows(invs), LAMBDA r : r.client_id = c /\ r.status = "pending")

\* FROM invoices WHERE client_id = %s
ClientRows(invs, c) == SelectSeq(Rows(invs), LAMBDA r : r.client_id = c)

\* ORDER BY due_date ASC
OrderByDue(rows) == SortSeq(rows, LAMBDA a, b : DateLT(a.due_date, b.due_date))

\* SELECT due_date ... ORDER BY due_date DESC LIMIT 1 (NoDate: no row)
LastInv(invs, c) ==
    LET mine == OrderByDue(ClientRows(invs, c))
    IN  IF mine = << >> THEN NoDate ELSE mine[Len(mine)].due_date

\* the first invoice ever, with "<=" for "<" in the test of the 10th
FirstAnchorLE(first_order_date) ==
    LET free_until == AddDays(first_order_date, GRACE_DAYS)
        target0 == Date(free_until.year, free_until.month, DUE_DAY)
        target_due_date ==
            IF DateLT(target0, free_until) \/ target0 = free_until
            THEN IF target0.month = 12 THEN Date(target0.year + 1, 1, DUE_DAY)
                 ELSE Date(target0.year, target0.month + 1, DUE_DAY)
            ELSE target0
    IN  IF target_due_date.month - 1 = 0
        THEN [start_month |-> 12, start_year |-> target_due_date.year - 1]
        ELSE [start_month |-> target_due_date.month - 1,
              start_year |-> target_due_date.year]

\* the first invoice ever, without the jump to the next month
FirstAnchorNoSkip(first_order_date) ==
    LET free_until == AddDays(first_order_date, GRACE_DAYS)
        target_due_date == Date(free_until.year, free_until.month, DUE_DAY)
    IN  IF target_due_date.month - 1 = 0
        THEN [start_month |-> 12, start_year |-> target_due_date.year - 1]
        ELSE [start_month |-> target_due_date.month - 1,
              start_year |-> target_due_date.year]

\* start_month, start_year of the first invoice ever (one free month)
FirstAnchor(first_order_date) ==
    LET free_until == AddDays(first_order_date, GRACE_DAYS)
        target0 == Date(free_until.year, free_until.month, DUE_DAY)
        target_due_date ==
            IF DateLT(target0, free_until)
            THEN IF target0.month = 12 THEN Date(target0.year + 1, 1, DUE_DAY)
                 ELSE Date(target0.year, target0.month + 1, DUE_DAY)
            ELSE target0
    IN  IF target_due_date.month - 1 = 0
        THEN [start_month |-> 12, start_year |-> target_due_date.year - 1]
        ELSE [start_month |-> target_due_date.month - 1,
              start_year |-> target_due_date.year]

\* start_month taken as the month after that of the latest due date
StartAnchorMonthAfter(invs, c, first_order_date) ==
    LET last_date == LastInv(invs, c)
    IN  IF last_date # NoDate
        THEN [start_month |-> last_date.month + 1, start_year |-> last_date.year]
        ELSE FirstAnchor(first_order_date)

\* start_month, start_year
StartAnchor(invs, c, first_order_date) ==
    LET last_date == LastInv(invs, c)
    IN  IF last_date # NoDate
        THEN [start_month |-> last_date.month, start_year |-> last_date.year]
        ELSE FirstAnchor(first_order_date)

\* due_dt of iteration i, with "calc_month // 12" as year_offset
DueDtYearEarly(start_month, start_year, i) ==
    LET calc_month == start_month + i
        year_offset == calc_month \div 12
        final_month == ((calc_month - 1) % 12) + 1
        final_year == start_year + year_offset
    IN  Date(final_year, final_month, DUE_DAY)

\* due_dt of iteration i, with "calc_month % 12 + 1" as final_month
DueDtModulo(start_month, start_year, i) ==
    LET calc_month == start_month + i
        year_offset == (calc_month - 1) \div 12
        final_month == (calc_month % 12) + 1
        final_year == start_year + year_offset
    IN  Date(final_year, final_month, DUE_DAY)

\* due_dt of iteration i, counted from the month after the next
DueDtSkip(start_month, start_year, i) ==
    LET calc_month == start_month + i + 1
        year_offset == (calc_month - 1) \div 12
        final_month == ((calc_month - 1) % 12) + 1
        final_year == start_year + year_offset
    IN  Date(final_year, final_month, DUE_DAY)

\* due_dt of iteration i
DueDt(start_month, start_year, i) ==
    LET calc_month == start_month + i
        year_offset == (calc_month - 1) \div 12
        final_month == ((calc_month - 1) % 12) + 1
        final_year == start_year + year_offset
    IN  Date(final_year, final_month, DUE_DAY)

\* SELECT id FROM invoices WHERE client_id = %s AND due_date = %s
ExistsDue(invs, c, due_dt) ==
    LET mine == ClientRows(invs, c)
    IN  \E k \in 1..Len(mine) : mine[k].due_date = due_dt

\* the INSERT into a table whose paid_at defaults to NOW()
InsertInvoiceStamped(invs, c, monthly_price, due_dt) ==
    Append(invs, [client_id |-> c, amount |-> monthly_price, due_date |-> due_dt,
                  status |-> "pending", paid_at |-> 1])

\* the INSERT with a fixed client id for the parameter
InsertInvoiceFirstClient(invs, c, monthly_price, due_dt) ==
    Append(invs, [client_id |-> 1, amount |-> monthly_price, due_date |-> due_dt,
                  status |-> "pending", paid_at |-> NoTime])

\* INSERT INTO invoices (client_id, amount, due_date, status)
InsertInvoice(invs, c, monthly_price, due_dt) ==
    Append(invs, [client_id |-> c, amount |-> monthly_price, due_date |-> due_dt,
                  status |-> "pending", paid_at |-> NoTime])

\* for i in range(1, needed + 1), from iteration i on
RECURSIVE GenLoop(_, _, _, _, _, _)
GenLoop(invs, c, monthly_price, anchor, i, needed) ==
    IF i > needed THEN invs
    ELSE LET due_dt == DueDt(anchor.start_month, anchor.start_year, i)
             next == IF ExistsDue(invs, c, due_dt) THEN invs
                     ELSE InsertInvoice(invs, c, monthly_price, due_dt)
         IN  GenLoop(next, c, monthly_price, anchor, i + 1, needed)

\* needed = 12, whatever is pending
NeededAlways(count_pending) == WINDOW

\* needed = 12 - count_pending
Needed(count_pending) == WINDOW - count_pending

\* the call without the return on "monthly_price <= 0"
ensure_future_invoicesAnyPrice(invs, os, prods, today, c, default_prod) ==
    LET basis == PriceBasis(os, prods, today, default_prod)
        needed == Needed(CountPending(invs, c))
    IN  IF needed > 0
        THEN GenLoop(invs, c, basis.monthly_price,
                     StartAnchor(invs, c, basis.first_order_date), 1, needed)
        ELSE invs

\* the invoices table after a call that meets no store error
ensure_future_invoices(invs, os, prods, today, c, default_prod) ==
    LET basis == PriceBasis(os, prods, today, default_prod)
        needed == Needed(CountPending(invs, c))
    IN  IF basis.monthly_price <= 0 THEN invs
        ELSE IF needed > 0
             THEN GenLoop(invs, c, basis.monthly_price,
                          StartAnchor(invs, c, basis.first_order_date), 1, needed)
             ELSE invs

-----------------------------------------------------------------------------
(* get_financial_dashboard                                                 *)

\* info as initialised before the store is read
DefaultInfo ==
    [status_global |-> "ok", message |-> "EM DIA", invoices |-> << >>,
     total_pending |-> 0, total_annual_discounted |-> 0, annual_savings |-> 0]

\* due.strftime('%d/%m/%Y')
DateFmt(d) == << d.day, d.month, d.year >>

\* the same SELECT without "AND status = 'pending'"
RawInvoicesAnyStatus(invs, c) ==
    LET sorted == OrderByDue(SelectSeq(Rows(invs), LAMBDA r : r.client_id = c))
    IN  [k \in 1..Len(sorted) |->
            [id |-> sorted[k].id, amount |-> sorted[k].amount,
             due_date |-> sorted[k].due_date, status |-> sorted[k].status]]

\* SELECT id, amount, due_date, status ... WHERE client_id = %s AND
\* status = 'pending' ORDER BY due_date ASC
RawInvoices(invs, c) ==
    LET pending == SelectSeq(Rows(invs),
                             LAMBDA r : r.client_id = c /\ r.status = "pending")
        sorted == OrderByDue(pending)
    IN  [k \in 1..Len(sorted) |->
            [id |-> sorted[k].id, amount |-> sorted[k].amount,
             due_date |-> sorted[k].due_date, status |-> sorted[k].status]]

BLOCKED == "BLOQUEADO (FATURA ATRASADA)"

\* the branches with "delta >= 3" as first test
BucketGE(delta) ==
    IF delta >= TOLERANCE THEN "overdue"
    ELSE IF delta >= 0 THEN "warning"
    ELSE "future"

\* the branch taken for delta: if delta > 3 / elif delta >= 0 / else
Bucket(delta) ==
    IF delta > TOLERANCE THEN "overdue"
    ELSE IF delta >= 0 THEN "warning"
    ELSE "future"

\* the labels with the else branch leaving the initial "A VENCER"
StatusLabelNoElse(bucket) ==
    IF bucket = "overdue" THEN "ATRASADO"
    ELSE IF bucket = "warning" THEN "VENCE HOJE"
    ELSE "A VENCER"

\* inv_data["status_label"] and inv_data["class"] set in each branch
StatusLabel(bucket) ==
    IF bucket = "overdue" THEN "ATRASADO"
    ELSE IF bucket = "warning" THEN "VENCE HOJE"
    ELSE "EM ABERTO (FUTURA)"

CssClass(bucket) ==
    IF bucket = "overdue" THEN "text-red-500 font-bold"
    ELSE IF bucket = "warning" THEN "text-yellow-500 font-bold"
    ELSE "text-gray-400"

\* info["status_global"] set to "warning" without looking at it
NextStatusNoGuard(status_global, bucket) ==
    IF bucket = "overdue" THEN "overdue"
    ELSE IF bucket = "warning" THEN "warning"
    ELSE status_global

\* info["status_global"] after the branch
NextStatus(status_global, bucket) ==
    IF bucket = "overdue" THEN "overdue"
    ELSE IF bucket = "warning" /\ status_global # "overdue" THEN "warning"
    ELSE status_global

\* info["message"] after the branch
NextMessage(message, bucket) ==
    IF bucket = "overdue" THEN BLOCKED
    ELSE IF bucket = "warning" /\ message # BLOCKED THEN "VENCE HOJE"
    ELSE message

\* body of "for inv in raw_invoices"
ClassifyInvoice(info, inv, today) ==
    LET due == inv.due_date
        delta == DaysBetween(today, due)
        bucket == Bucket(delta)
        inv_data == [id |-> inv.id, amount |-> inv.amount, date_fmt |-> DateFmt(due),
                     status_label |-> StatusLabel(bucket), class |-> CssClass(bucket)]
    IN  [info EXCEPT !.status_global = NextStatus(@, bucket),
                     !.message = NextMessage(@, bucket),
                     !.invoices = Append(@, inv_data),
                     !.total_pending = @ + inv.amount]

\* the loop over raw_invoices, from row k on
RECURSIVE ClassifyAll(_, _, _, _)
ClassifyAll(info, raw, k, today) ==
    IF k > Len(raw) THEN info
    ELSE ClassifyAll(ClassifyInvoice(info, raw[k], today), raw, k + 1, today)

\* totals of the annual plan, with the discounted total cut to whole cents
AnnualTotalsWholeCents(info) ==
    IF info.total_pending > 0
    THEN LET discounted == ((info.total_pending * 90) \div 1000) * 10
         IN  [info EXCEPT !.total_annual_discounted = discounted,
                          !.annual_savings = info.total_pending - discounted]
    ELSE info

\* totals of the annual plan: 10% off
AnnualTotals(info) ==
    IF info.total_pending > 0
    THEN LET discounted == (info.total_pending * 90) \div 100
         IN  [info EXCEPT !.total_annual_discounted = discounted,
                          !.annual_savings = info.total_pending - discounted]
    ELSE info

\* the function returning a blocked result when it cannot read
get_financial_dashboardFailClosed(invs, c, today, read) ==
    IF read # "none"
    THEN [DefaultInfo EXCEPT !.status_global = "overdue", !.message = BLOCKED]
    ELSE AnnualTotals(ClassifyAll(DefaultInfo, RawInvoices(invs, c), 1, today))

\* what get_financial_dashboard returns once ensure_future_invoices has
\* returned; read: "none", or the failure met ("conn": no connection,
\* "store": the query raised)
get_financial_dashboard(invs, c, today, read) ==
    IF read # "none" THEN DefaultInfo
    ELSE AnnualTotals(ClassifyAll(DefaultInfo, RawInvoices(invs, c), 1, today))

-----------------------------------------------------------------------------
(* pay_monthly, pay_annual, mercadopago_webhook                            *)

\* external_reference "INV-<id>" and "ANNUAL-<client>"
Ref(kind, target) == [kind |-> kind, target |-> target]
NoRef == Ref("-", 0)

\* the pending invoices of c the subscriber picks from, by rank of due date
PayRanks == {1, 2}

Payable(invs, c) ==
    LET raw == RawInvoices(invs, c)
    IN  {raw[k].id : k \in PayRanks \cap (1..Len(raw))}

\* NOW() of the notification being processed
NOW(n) == n + 1

\* the update taking a repeated notification for a reversal
PayInvoiceToggle(invs, invoice_id, now) ==
    [i \in 1..Len(invs) |->
        IF i # invoice_id THEN invs[i]
        ELSE IF invs[i].status = "paid"
        THEN [invs[i] EXCEPT !.status = "pending", !.paid_at = NoTime]
        ELSE [invs[i] EXCEPT !.status = "paid", !.paid_at = now]]

\* UPDATE invoices SET status = 'paid', paid_at = NOW() WHERE id = %s
PayInvoice(invs, invoice_id, now) ==
    [i \in 1..Len(invs) |->
        IF i = invoice_id THEN [invs[i] EXCEPT !.status = "paid", !.paid_at = now]
        ELSE invs[i]]

\* UPDATE invoices SET status = 'paid', paid_at = NOW()
\* WHERE client_id = %s AND status = 'pending'
PayAllPending(invs, c, now) ==
    [i \in 1..Len(invs) |->
        IF invs[i].client_id = c /\ invs[i].status = "pending"
        THEN [invs[i] EXCEPT !.status = "paid", !.paid_at = now]
        ELSE invs[i]]

\* the invoices table after an approved notification with reference ref
mercadopago_webhook(invs, ref, now) ==
    IF ref.kind = "INV" THEN PayInvoice(invs, ref.target, now)
    ELSE IF ref.kind = "ANNUAL" THEN PayAllPending(invs, ref.target, now)
    ELSE invs

-----------------------------------------------------------------------------
(* update_briefing                                                         *)

\* a row of table briefings
Briefing(colors, style, sections, status, revisoes) ==
    [colors |-> colors, style_preference |-> style, site_sections |-> sections,
     status |-> status, revisoes_restantes |-> revisoes]

\* the row skip_briefing inserts
SkippedBriefing ==
    Briefing("Pendente", "Pendente (Pulado)", "Pendente (Pulado)", "skipped", 3)

\* request.json of an update
BriefData ==
    { [colors |-> "azul", style |-> "moderno", sections |-> "home"],
      [colors |-> "verde", style |-> "classico", sections |-> "home,contato"] }

\* UPDATE briefings SET colors, style_preference, site_sections,
\* revisoes_restantes = revisoes_restantes - 1, status WHERE client_id = %s
UpdateRows(rows, data, novo_status) ==
    [k \in 1..Len(rows) |->
        [rows[k] EXCEPT !.colors = data.colors,
                        !.style_preference = data.style,
                        !.site_sections = data.sections,
                        !.revisoes_restantes = @ - 1,
                        !.status = novo_status]]

\* the gate testing the message class instead of the status
FinanciallyBlockedByClass(fin_status) ==
    fin_status.status_global = "danger"

\* if fin_status['status_global'] == 'overdue'
FinanciallyBlocked(fin_status) ==
    fin_status.status_global = "overdue"

\* the response code and the rows of the client after update_briefing, given
\* the dashboard result and how the handler's own data access ends
update_briefing(rows, fin_status, data, err) ==
    IF FinanciallyBlocked(fin_status) THEN [code |-> 403, rows |-> rows]
    ELSE IF err # "none" THEN [code |-> 500, rows |-> rows]
    ELSE IF rows = << >> THEN [code |-> 404, rows |-> rows]
    ELSE IF rows[1].revisoes_restantes <= 0 THEN [code |-> 403, rows |-> rows]
    ELSE LET novo_status == IF rows[1].status = "skipped" THEN "ativo"
                            ELSE rows[1].status
         IN  [code |-> 200, rows |-> UpdateRows(rows, data, novo_status)]

-----------------------------------------------------------------------------
(* The system: requests are served one at a time                           *)

\* how a data access ends: well ("none"), get_db_connection returns None
\* ("conn"), a statement raises on a connection that stays open ("store"), a
\* statement raises because the connection is lost ("lost")
Errors == {"none", "conn", "store", "lost"}

\* how a guarded data access ends for the code that follows it
Outcome(err) == IF err = "none" THEN "ok" ELSE "failed"

\* how ensure_future_invoices ends for its caller: the handler of the
\* exception calls conn.rollback(), which raises in its turn on a connection
\* that is closed, and nothing catches that
EnsureOutcome(err) == IF err = "lost" THEN "raised" ELSE Outcome(err)

\* the number of inserts a failing call has made when its statement raises
FailPoints(err) == IF err \in {"store", "lost"} THEN {0, 1} ELSE {0}

\* how the read of get_financial_dashboard may end once its call of
\* ensure_future_invoices has ended with err: its handler does not touch
\* the connection, so a lost connection is an exception like another
ReadErrors(err) == IF err = "lost" THEN {"none"} ELSE {"none", "conn", "store"}

\* a request served: on which day, for which client, how its call of
\* ensure_future_invoices and its own read ended, the rows inserted, the
\* dashboard returned and the payment reference processed
Op(op, c, ensured, read, inserted, info, ref) ==
    [op |-> op, client |-> c, today |-> Today, ensured |-> ensured, read |-> read,
     inserted |-> inserted, info |-> info, ref |-> ref, code |-> 0]

NoOp == [op |-> "-", client |-> 0, today |-> NoDate, ensured |-> "-", read |-> "-",
         inserted |-> 0, info |-> DefaultInfo, ref |-> NoRef, code |-> 0]

\* no row in table briefings; no call of ensure_future_invoices in progress
NoBriefings == [c \in Clients |-> << >>]
NoTx == << >>

\* no annual quote asked for
NoQuotes == [c \in Clients |-> {}]

passVars == <<passQueue, passInfo, passToday>>

Init ==
    /\ invoices = << >>
    /\ \E s \in Scenarios : orders = s.orders /\ products = s.products
    /\ clock = 1
    /\ deliveries = 0
    /\ notified = {}
    /\ lastOp = NoOp
    /\ briefings = NoBriefings
    /\ tx = NoTx
    /\ quoted = NoQuotes
    /\ checkedOut = 0
    /\ passQueue = << >>
    /\ passInfo = DefaultInfo
    /\ passToday = Days[1]

\* the table as the transaction of ensure_future_invoices(c) sees it when a
\* statement raises after fail_at inserts
Uncommitted(c, default_prod, fail_at) ==
    LET basis == PriceBasis(orders[c], products, Today, default_prod)
        needed == Needed(CountPending(invoices, c))
        done == IF fail_at < needed THEN fail_at ELSE needed
    IN  IF basis.monthly_price <= 0 \/ needed <= 0 THEN invoices
        ELSE GenLoop(invoices, c, basis.monthly_price,
                     StartAnchor(invoices, c, basis.first_order_date), 1, done)

\* the table after a transaction that did not commit: conn.rollback(), or
\* the server dropping the transaction of a lost connection
Rollback(committed, working) == committed

\* the invoices table after ensure_future_invoices(c) ended with err:
\* without a connection it returns at once, after an exception nothing of
\* the transaction is kept
Ensured(c, err, default_prod, fail_at) ==
    IF err = "none"
    THEN ensure_future_invoices(invoices, orders[c], products, Today, c, default_prod)
    ELSE IF err = "conn" THEN invoices
    ELSE Rollback(invoices, Uncommitted(c, default_prod, fail_at))

\* the table the SELECT of get_financial_dashboard reads: the one its call
\* of ensure_future_invoices found, with "before", the one it left, with
\* "after"
ReadSnapshotBefore(before, after) == before

ReadSnapshot(before, after) == after

\* a day passes between two requests
Tick ==
    /\ clock < Len(Days)
    /\ clock' = clock + 1
    /\ lastOp' = [NoOp EXCEPT !.op = "tick"]
    /\ UNCHANGED <<invoices, orders, products, deliveries, notified, passVars, briefings, tx, quoted, checkedOut>>

Ensure(c) ==
    \E err \in Errors, default_prod \in DefaultProds(products) :
        \E fail_at \in FailPoints(err) :
            /\ invoices' = Ensured(c, err, default_prod, fail_at)
            /\ Len(invoices') <= MaxInvoices
            /\ lastOp' = Op("ensure", c, EnsureOutcome(err), "-",
                            Len(invoices') - Len(invoices), DefaultInfo, NoRef)
            /\ UNCHANGED <<orders, products, clock, deliveries, notified, passVars, briefings, tx, quoted, checkedOut>>

\* get_financial_dashboard(c): when its call of ensure_future_invoices
\* raises, nothing is read and nothing is returned
Dashboard(c) ==
    \E err \in Errors, default_prod \in DefaultProds(products) :
        \E fail_at \in FailPoints(err), read \in ReadErrors(err) :
            LET invs == Ensured(c, err, default_prod, fail_at)
                raised == EnsureOutcome(err) = "raised"
            IN  /\ invoices' = invs
                /\ Len(invs) <= MaxInvoices
                /\ lastOp' = Op("dashboard", c, EnsureOutcome(err),
                                IF raised THEN "-" ELSE Outcome(read),
                                Len(invs) - Len(invoices),
                                IF raised THEN DefaultInfo
                                ELSE get_financial_dashboard(
                                         ReadSnapshot(invoices, invs), c, Today, read),
                                NoRef)
                /\ UNCHANGED <<orders, products, clock, deliveries, notified, passVars, briefings, tx, quoted, checkedOut>>

\* the references of the payments the gateway may notify as approved:
\* pay_monthly issues "INV-<id>" for an invoice that is pending, pay_annual
\* issues "ANNUAL-<client>" for a client with pending invoices, and the
\* gateway may deliver again a notification it has delivered
Refs(invs, again) ==
    {Ref("INV", i) : i \in UNION {Payable(invs, c) : c \in Clients}}
    \cup {Ref("ANNUAL", c) : c \in {d \in Clients : PendingOf(invs, d) # {}}}
    \cup again

\* a notification is processed and committed
Webhook ==
    \E ref \in Refs(invoices, notified) :
        /\ deliveries < MaxDeliveries
        /\ deliveries' = deliveries + 1
        /\ notified' = notified \cup {ref}
        /\ invoices' = mercadopago_webhook(invoices, ref, NOW(deliveries))
        /\ lastOp' = Op("webhook", 0, "-", "ok", 0, DefaultInfo, ref)
        /\ UNCHANGED <<orders, products, clock, passVars, briefings, tx, quoted, checkedOut>>

\* get_db_connection returns None: conn.cursor() raises, the handler
\* answers 500 and nothing is written
WebhookFail ==
    /\ Refs(invoices, notified) # {}
    /\ lastOp' = Op("webhook", 0, "-", "failed", 0, DefaultInfo, NoRef)
    /\ UNCHANGED <<invoices, orders, products, clock, deliveries, notified, passVars, briefings, tx, quoted, checkedOut>>

Next ==
    \/ Tick
    \/ \E c \in Clients : Ensure(c)
    \/ \E c \in Clients : Dashboard(c)
    \/ Webhook
    \/ WebhookFail

Spec == Init /\ [][Next]_vars

-----------------------------------------------------------------------------
(* The first invoice ever, for every day on which the first order may      *)
(* have been created                                                       *)

FirstYears == {2023, 2024}

FirstOrderDates ==
    {d \in {Date(y, m, n) : y \in FirstYears, m \in 1..12, n \in 1..31} :
        d.day <= DaysInMonth(d.year, d.month) /\ ~ DateLT(Days[1], d)}

FirstInit ==
    /\ invoices = << >>
    /\ \E d \in FirstOrderDates : orders = (1 :> << Order(10000, 1, d) >>)
    /\ products = CatalogA
    /\ clock = 1
    /\ deliveries = 0
    /\ notified = {}
    /\ lastOp = NoOp
    /\ briefings = NoBriefings
    /\ tx = NoTx
    /\ quoted = NoQuotes
    /\ checkedOut = 0
    /\ passQueue = << >>
    /\ passInfo = DefaultInfo
    /\ passToday = Days[1]

FirstNext ==
    \/ \E c \in Clients : Ensure(c)
    \/ \E c \in Clients : Dashboard(c)

FirstSpec == FirstInit /\ [][FirstNext]_vars

-----------------------------------------------------------------------------
(* Two subscribers in one store, on one day: both with a price, or one    *)
(* with a price and one without                                            *)

PairInit ==
    /\ invoices = << >>
    /\ orders \in { (1 :> HLinked) @@ (2 :> HSecond),
                    (1 :> HLinked) @@ (2 :> HUnpriced) }
    /\ products = CatalogB
    /\ clock = 1
    /\ deliveries = 0
    /\ notified = {}
    /\ lastOp = NoOp
    /\ briefings = NoBriefings
    /\ tx = NoTx
    /\ quoted = NoQuotes
    /\ checkedOut = 0
    /\ passQueue = << >>
    /\ passInfo = DefaultInfo
    /\ passToday = Days[1]

\* the requests of the application: ensure_future_invoices is reached
\* through get_financial_dashboard only
PairNext ==
    \/ \E c \in Clients : Dashboard(c)
    \/ Webhook

PairSpec == PairInit /\ [][PairNext]_vars

-----------------------------------------------------------------------------
(* Briefing edits behind the financial gate                                *)

\* how the handler's own connection and statements end
BriefErrors == {"none", "conn", "store"}

BriefInit ==
    /\ invoices = << >>
    /\ orders = (1 :> HOwn)
    /\ products = CatalogA
    /\ clock = 1
    /\ deliveries = 0
    /\ notified = {}
    /\ lastOp = NoOp
    /\ passQueue = << >>
    /\ passInfo = DefaultInfo
    /\ passToday = Days[1]
    /\ briefings \in {NoBriefings, [c \in Clients |-> << SkippedBriefing >>]}
    /\ tx = NoTx
    /\ quoted = NoQuotes
    /\ checkedOut = 0

\* POST /api/briefing/update by client c
UpdateBriefing(c) ==
    \E err \in Errors, default_prod \in DefaultProds(products),
       berr \in BriefErrors, data \in BriefData :
        \E fail_at \in FailPoints(err), read \in ReadErrors(err) :
            LET invs == Ensured(c, err, default_prod, fail_at)
                raised == EnsureOutcome(err) = "raised"
                fin_status == get_financial_dashboard(ReadSnapshot(invoices, invs),
                                                      c, Today, read)
                res == IF raised THEN [code |-> 500, rows |-> briefings[c]]
                       ELSE update_briefing(briefings[c], fin_status, data, berr)
            IN  /\ invoices' = invs
                /\ briefings' = [briefings EXCEPT ![c] = res.rows]
                /\ lastOp' = [Op("update_briefing", c, EnsureOutcome(err),
                                  IF raised THEN "-" ELSE Outcome(read),
                                  Len(invs) - Len(invoices),
                                  IF raised THEN DefaultInfo ELSE fin_status,
                                  NoRef) EXCEPT !.code = res.code]
                /\ UNCHANGED <<orders, products, clock, deliveries, notified,
                               passVars, tx, quoted, checkedOut>>

BriefNext ==
    \/ Tick
    \/ \E c \in Clients : UpdateBriefing(c)

BriefSpec == BriefInit /\ [][BriefNext]_vars

-----------------------------------------------------------------------------
(* Two calls of ensure_future_invoices for one subscriber, each on its own *)
(* connection and in its own transaction. No isolation level is set, so    *)
(* every statement reads the rows committed when it starts and the rows    *)
(* its own transaction has inserted (READ COMMITTED); the table has no     *)
(* unique constraint on (client_id, due_date), so no insert waits.         *)

Racers == {1, 2}

\* the subscriber both calls are for
RaceClient == 1

\* a call that has obtained its connection and executed nothing yet
StartTx ==
    [pc |-> "count", needed |-> 0, anchor |-> [start_month |-> 0, start_year |-> 0],
     i |-> 0, writes |-> << >>]

\* the table a statement of call t reads
TxView(t) == invoices \o tx[t].writes

\* the table after one earlier call and the payment of its first invoice
OnePaid ==
    PayInvoice(ensure_future_invoices(<< >>, HOwn, CatalogA, Days[1], RaceClient, 1),
               1, NOW(0))

RaceInit ==
    /\ invoices \in {<< >>, OnePaid}
    /\ orders = (RaceClient :> HOwn)
    /\ products = CatalogA
    /\ clock = 1
    /\ deliveries = 0
    /\ notified = {}
    /\ lastOp = NoOp
    /\ passQueue = << >>
    /\ passInfo = DefaultInfo
    /\ passToday = Days[1]
    /\ briefings = NoBriefings
    /\ tx = [t \in Racers |-> StartTx]
    /\ quoted = NoQuotes
    /\ checkedOut = 0

raceFrame == <<orders, products, clock, deliveries, notified, lastOp, passVars,
               briefings, quoted, checkedOut>>

\* the price, then SELECT COUNT(*) of the pending invoices and needed
TxCount(t) ==
    /\ tx[t].pc = "count"
    /\ \E default_prod \in DefaultProds(products) :
          LET basis == PriceBasis(orders[RaceClient], products, Today, default_prod)
              needed == Needed(CountPending(TxView(t), RaceClient))
          IN  tx' = [tx EXCEPT ![t].needed = needed,
                               ![t].pc = IF basis.monthly_price <= 0 \/ needed <= 0
                                         THEN "done" ELSE "latest"]
    /\ UNCHANGED <<invoices, raceFrame>>

\* SELECT due_date ... ORDER BY due_date DESC LIMIT 1 and the start month
TxLatest(t) ==
    /\ tx[t].pc = "latest"
    /\ \E default_prod \in DefaultProds(products) :
          LET basis == PriceBasis(orders[RaceClient], products, Today, default_prod)
          IN  tx' = [tx EXCEPT ![t].anchor = StartAnchor(TxView(t), RaceClient,
                                                         basis.first_order_date),
                               ![t].i = 1,
                               ![t].pc = "loop"]
    /\ UNCHANGED <<invoices, raceFrame>>

\* one iteration of the loop: the existence check and, if no row, the INSERT
TxIter(t) ==
    /\ tx[t].pc = "loop"
    /\ \E default_prod \in DefaultProds(products) :
          LET basis == PriceBasis(orders[RaceClient], products, Today, default_prod)
              due_dt == DueDt(tx[t].anchor.start_month, tx[t].anchor.start_year,
                              tx[t].i)
              writes == IF ExistsDue(TxView(t), RaceClient, due_dt) THEN tx[t].writes
                        ELSE InsertInvoice(tx[t].writes, RaceClient,
                                           basis.monthly_price, due_dt)
          IN  tx' = [tx EXCEPT ![t].writes = writes,
                               ![t].i = @ + 1,
                               ![t].pc = IF tx[t].i + 1 > tx[t].needed
                                         THEN "commit" ELSE "loop"]
    /\ UNCHANGED <<invoices, raceFrame>>

\* conn.commit(): the rows inserted by the call become visible to all
TxCommit(t) ==
    /\ tx[t].pc = "commit"
    /\ Len(invoices) + Len(tx[t].writes) <= MaxInvoices
    /\ invoices' = invoices \o tx[t].writes
    /\ tx' = [tx EXCEPT ![t].writes = << >>, ![t].pc = "done"]
    /\ UNCHANGED raceFrame

RaceNext ==
    \E t \in Racers : TxCount(t) \/ TxLatest(t) \/ TxIter(t) \/ TxCommit(t)

RaceSpec == RaceInit /\ [][RaceNext]_vars

-----------------------------------------------------------------------------
(* One call of ensure_future_invoices followed statement by statement,     *)
(* after a year of invoices paid at once, for a latest due date in every   *)
(* month of the year                                                       *)

\* the first order was created on the 15th of a month of 2023
RollOrders == {<< Order(10000, 1, Date(2023, m, 15)) >> : m \in 1..12}

\* the table after the first call and the annual payment
YearPaid(os) ==
    PayAllPending(ensure_future_invoices(<< >>, os, CatalogA, Days[1], RaceClient, 1),
                  RaceClient, NOW(0))

RollInit ==
    /\ \E os \in RollOrders :
          /\ orders = (RaceClient :> os)
          /\ invoices = YearPaid(os)
    /\ products = CatalogA
    /\ clock = 1
    /\ deliveries = 1
    /\ notified = {Ref("ANNUAL", RaceClient)}
    /\ lastOp = NoOp
    /\ passQueue = << >>
    /\ passInfo = DefaultInfo
    /\ passToday = Days[1]
    /\ briefings = NoBriefings
    /\ tx = (1 :> StartTx)
    /\ quoted = NoQuotes
    /\ checkedOut = 0

RollNext ==
    \/ TxCount(1)
    \/ TxLatest(1)
    \/ TxIter(1)
    \/ TxCommit(1)

RollSpec == RollInit /\ [][RollNext]_vars

-----------------------------------------------------------------------------
(* The price scan, for every short order history of one subscriber         *)

\* created_at of the k-th order: 2023-11-15, 2023-12-16, 2024-01-16, ...
ScanDate(k) == AddDays(Date(2023, 11, 15), 31 * (k - 1))

\* total_monthly and product_id of an order
ScanAmounts == {0, 3330}
ScanLinks == {NoProduct, 1, 2}

ScanHistories ==
    UNION { {[k \in 1..n |-> Order(a[k], l[k], ScanDate(k))] :
                a \in [1..n -> ScanAmounts], l \in [1..n -> ScanLinks]} :
            n \in 0..MaxOrders }

ScanInit ==
    /\ invoices = << >>
    /\ \E os \in ScanHistories : orders = (1 :> os)
    /\ products \in {CatalogA, CatalogB}
    /\ clock = 1
    /\ deliveries = 0
    /\ notified = {}
    /\ lastOp = NoOp
    /\ passQueue = << >>
    /\ passInfo = DefaultInfo
    /\ passToday = Days[1]
    /\ briefings = NoBriefings
    /\ tx = NoTx
    /\ quoted = NoQuotes
    /\ checkedOut = 0

ScanNext == \E c \in Clients : Ensure(c)

ScanSpec == ScanInit /\ [][ScanNext]_vars

-----------------------------------------------------------------------------
(* The annual prepayment: quote, then confirmation                         *)

\* how the creation of the payment preference at the gateway ends
GatewayOutcomes == {"created", "refused"}

\* the response code of pay_annual and the invoices its quote sums
pay_annual(fin, gateway) ==
    IF fin.total_annual_discounted <= 0 THEN [code |-> 400, quote |-> {}]
    ELSE IF gateway # "created" THEN [code |-> 500, quote |-> {}]
    ELSE [code |-> 200,
          quote |-> {fin.invoices[k].id : k \in 1..Len(fin.invoices)}]

QuoteInit ==
    /\ invoices = << >>
    /\ orders = (1 :> HOwn)
    /\ products = CatalogA
    /\ clock = 1
    /\ deliveries = 0
    /\ notified = {}
    /\ lastOp = NoOp
    /\ passQueue = << >>
    /\ passInfo = DefaultInfo
    /\ passToday = Days[1]
    /\ briefings = NoBriefings
    /\ tx = NoTx
    /\ quoted = NoQuotes
    /\ checkedOut = 0

\* POST /api/pay_annual by client c, the gateway client being configured
PayAnnual(c) ==
    \E err \in Errors, default_prod \in DefaultProds(products),
       gateway \in GatewayOutcomes :
        \E fail_at \in FailPoints(err), read \in ReadErrors(err) :
            LET invs == Ensured(c, err, default_prod, fail_at)
                raised == EnsureOutcome(err) = "raised"
                fin == get_financial_dashboard(ReadSnapshot(invoices, invs),
                                               c, Today, read)
                res == IF raised THEN [code |-> 500, quote |-> {}]
                       ELSE pay_annual(fin, gateway)
            IN  /\ invoices' = invs
                /\ Len(invs) <= MaxInvoices
                /\ quoted' = IF res.code = 200 THEN [quoted EXCEPT ![c] = res.quote]
                              ELSE quoted
                /\ lastOp' = [Op("pay_annual", c, EnsureOutcome(err),
                                  IF raised THEN "-" ELSE Outcome(read),
                                  Len(invs) - Len(invoices),
                                  IF raised THEN DefaultInfo ELSE fin,
                                  NoRef) EXCEPT !.code = res.code]
                /\ UNCHANGED <<orders, products, clock, deliveries, notified,
                               passVars, briefings, tx, checkedOut>>

QuoteNext ==
    \/ \E c \in Clients : PayAnnual(c)
    \/ \E c \in Clients : Dashboard(c)
    \/ Webhook

QuoteSpec == QuoteInit /\ [][QuoteNext]_vars

-----------------------------------------------------------------------------
(* The connection pool across requests                                     *)

\* connections a handler has taken and not returned when it ends:
\* ensure_future_invoices and get_financial_dashboard return theirs in a
\* finally block; mercadopago_webhook returns its connection after
\* conn.commit() only, so not when a statement or the commit raises; when
\* get_db_connection returns None nothing was taken
Held(op, err) ==
    IF op = "webhook" /\ err \in {"store", "lost"} THEN 1 ELSE 0

PoolInit ==
    /\ invoices = << >>
    /\ orders = (1 :> HOwn)
    /\ products = CatalogA
    /\ clock = 1
    /\ deliveries = 0
    /\ notified = {}
    /\ lastOp = NoOp
    /\ passQueue = << >>
    /\ passInfo = DefaultInfo
    /\ passToday = Days[1]
    /\ briefings = NoBriefings
    /\ tx = NoTx
    /\ quoted = NoQuotes
    /\ checkedOut = 0

\* a notification whose UPDATE or commit raises: the handler answers 500,
\* nothing is committed and the connection stays checked out
WebhookStoreFail ==
    \E err \in {"store", "lost"} :
        /\ Refs(invoices, notified) # {}
        /\ checkedOut < POOL_MAX
        /\ checkedOut' = checkedOut + Held("webhook", err)
        /\ lastOp' = Op("webhook", 0, "-", "failed", 0, DefaultInfo, NoRef)
        /\ UNCHANGED <<invoices, orders, products, clock, deliveries, notified,
                       passVars, briefings, tx, quoted>>

PoolNext ==
    \/ \E c \in Clients : Dashboard(c)
    \/ Webhook
    \/ WebhookFail
    \/ WebhookStoreFail

PoolSpec == PoolInit /\ [][PoolNext]_vars

-----------------------------------------------------------------------------
(* Two update_briefing requests of one subscriber side by side, each on    *)
(* its own connection. The SELECT takes no lock; the UPDATE waits for a    *)
(* transaction that has updated the row and, READ COMMITTED, then applies  *)
(* "revisoes_restantes - 1" to the row as that transaction committed it.   *)

\* a request that has not started
IdleEdit ==
    [pc |-> "gate", revisoes |-> 0, status_atual |-> "-", row |-> << >>, code |-> 0]

EditInit ==
    /\ invoices = << >>
    /\ orders = (RaceClient :> HOwn)
    /\ products = CatalogA
    /\ clock = 1
    /\ deliveries = 0
    /\ notified = {}
    /\ lastOp = NoOp
    /\ passQueue = << >>
    /\ passInfo = DefaultInfo
    /\ passToday = Days[1]
    /\ briefings = [c \in Clients |-> << SkippedBriefing >>]
    /\ tx = [t \in Racers |-> IdleEdit]
    /\ quoted = NoQuotes
    /\ checkedOut = 0

editFrame == <<orders, products, clock, deliveries, notified, lastOp, passVars,
               quoted, checkedOut>>

\* the request ends with a response code
Answer(t, code) == [tx EXCEPT ![t].pc = "done", ![t].code = code]

\* the financial gate: get_financial_dashboard, then the test of overdue
EditGate(t) ==
    /\ tx[t].pc = "gate"
    /\ \E err \in Errors, default_prod \in DefaultProds(products) :
        \E fail_at \in FailPoints(err), read \in ReadErrors(err) :
            LET invs == Ensured(RaceClient, err, default_prod, fail_at)
                fin == get_financial_dashboard(ReadSnapshot(invoices, invs),
                                               RaceClient, Today, read)
            IN  /\ invoices' = invs
                /\ Len(invs) <= MaxInvoices
                /\ tx' = IF EnsureOutcome(err) = "raised" THEN Answer(t, 500)
                          ELSE IF FinanciallyBlocked(fin) THEN Answer(t, 403)
                          ELSE [tx EXCEPT ![t].pc = "select"]
    /\ UNCHANGED <<briefings, editFrame>>

\* SELECT revisoes_restantes, status and the two tests on the row read
EditSelect(t) ==
    /\ tx[t].pc = "select"
    /\ \E berr \in BriefErrors :
          LET rows == briefings[RaceClient]
          IN  tx' = IF berr # "none" THEN Answer(t, 500)
                    ELSE IF rows = << >> THEN Answer(t, 404)
                    ELSE IF rows[1].revisoes_restantes <= 0 THEN Answer(t, 403)
                    ELSE [tx EXCEPT ![t].pc = "update",
                                    ![t].revisoes = rows[1].revisoes_restantes,
                                    ![t].status_atual = rows[1].status]
    /\ UNCHANGED <<invoices, briefings, editFrame>>

\* the UPDATE, once no other transaction holds the row
EditUpdate(t) ==
    /\ tx[t].pc = "update"
    /\ \A u \in Racers \ {t} : tx[u].pc # "commit"
    /\ \E data \in BriefData :
          LET novo_status == IF tx[t].status_atual = "skipped" THEN "ativo"
                             ELSE tx[t].status_atual
          IN  tx' = [tx EXCEPT ![t].pc = "commit",
                               ![t].row = UpdateRows(briefings[RaceClient], data,
                                                     novo_status)]
    /\ UNCHANGED <<invoices, briefings, editFrame>>

\* conn.commit() and the answer 200
EditCommit(t) ==
    /\ tx[t].pc = "commit"
    /\ briefings' = [briefings EXCEPT ![RaceClient] = tx[t].row]
    /\ tx' = [tx EXCEPT ![t].pc = "done", ![t].code = 200, ![t].row = << >>]
    /\ UNCHANGED <<invoices, editFrame>>

\* the subscriber sends another request
EditAgain(t) ==
    /\ tx[t].pc = "done"
    /\ tx' = [tx EXCEPT ![t] = IdleEdit]
    /\ UNCHANGED <<invoices, briefings, editFrame>>

EditNext ==
    \E t \in Racers :
        EditGate(t) \/ EditSelect(t) \/ EditUpdate(t) \/ EditCommit(t) \/ EditAgain(t)

EditSpec == EditInit /\ [][EditNext]_vars

-----------------------------------------------------------------------------
(* One pass of the dashboard loop over rows taken in any order             *)

PassDays == {Date(2024, 3, 12), Date(2024, 3, 13), Date(2024, 3, 14)}

PassDues == {Date(2024, 3, 9), Date(2024, 3, 10), Date(2024, 3, 13), Date(2024, 4, 1)}

\* the rows fetched: ids 1..n, any due dates in any order
PassQueues ==
    UNION {[1..n -> PassDues] : n \in 1..MaxPass}

PassInit ==
    /\ invoices = << >>
    /\ orders = (1 :> << >>)
    /\ products = CatalogB
    /\ clock = 1
    /\ deliveries = 0
    /\ notified = {}
    /\ lastOp = NoOp
    /\ briefings = NoBriefings
    /\ tx = NoTx
    /\ quoted = NoQuotes
    /\ checkedOut = 0
    /\ passToday \in PassDays
    /\ \E q \in PassQueues :
           passQueue = [k \in 1..Len(q) |->
                           [id |-> k, amount |-> 10000, due_date |-> q[k],
                            status |-> "pending"]]
    /\ passInfo = DefaultInfo

\* one iteration of "for inv in raw_invoices"
PassStep ==
    /\ passQueue # << >>
    /\ passInfo' = ClassifyInvoice(passInfo, Head(passQueue), passToday)
    /\ passQueue' = Tail(passQueue)
    /\ UNCHANGED <<invoices, orders, products, clock, deliveries, notified, lastOp,
                   passToday, briefings, tx, quoted, checkedOut>>

PassNext == PassStep

PassSpec == PassInit /\ [][PassNext]_vars

-----------------------------------------------------------------------------
(* Vocabulary of the properties, stated on the tables themselves           *)

\* ids of the invoices of subscriber c, and of those with a given status
Mine(c) == {i \in 1..Len(invoices) : invoices[i].client_id = c}
Pend(c) == {i \in Mine(c) : invoices[i].status = "pending"}
Paid(c) == {i \in Mine(c) : invoices[i].status = "paid"}

\* months counted from year 0
MonthIndex(d) == d.year * 12 + d.month

MonthsOf(ids) == {MonthIndex(invoices[i].due_date) : i \in ids}

\* the months from the earliest to the latest month of a set of months
Span(months) ==
    IF months = {} THEN {}
    ELSE LET lo == CHOOSE m \in months : \A n \in months : m <= n
             hi == CHOOSE m \in months : \A n \in months : n <= m
         IN  lo..hi

\* subscriber c has a discoverable positive monthly price
Priced(c) ==
    \/ \E k \in 1..Len(orders[c]) :
          \/ orders[c][k].total_monthly > 0
          \/ /\ orders[c][k].product_id \in 1..Len(products)
             /\ products[orders[c][k].product_id].price_monthly > 0
    \/ \E q \in 1..Len(products) : products[q].is_active /\ products[q].price_monthly > 0

\* the last step was a call of get_financial_dashboard that returned
DashboardReturned == lastOp.op = "dashboard" /\ lastOp.ensured # "raised"

\* the last step ran ensure_future_invoices(c) to its end without store error
EnsuredOk(c) == lastOp.client = c /\ lastOp.ensured = "ok"

-----------------------------------------------------------------------------
(* C1  Window invariant: for a subscriber with a discoverable positive     *)
(* monthly price, right after a call of ensure_future_invoices that met    *)
(* no store error the subscriber has exactly 12 pending invoices, whatever *)
(* scheduler calls, dashboard calls and payment confirmations came before. *)
Thm_C1_Window ==
    \A c \in Clients :
        EnsuredOk(c) /\ Priced(c) => Cardinality(Pend(c)) = 12

\* a call refilled the window after a payment
Wit_C1_Refilled ==
    \E c \in Clients :
        /\ lastOp.op = "ensure" /\ EnsuredOk(c) /\ Priced(c)
        /\ lastOp.inserted > 0
        /\ Paid(c) # {}
        /\ Cardinality(Pend(c)) = 12

(* C2  Due-date uniqueness: in every reachable state no two invoices of    *)
(* the same subscriber have the same due_date.                             *)
Thm_C2_UniqueDueDate ==
    \A i, j \in 1..Len(invoices) :
        i # j /\ invoices[i].client_id = invoices[j].client_id
            => invoices[i].due_date # invoices[j].due_date

\* a window regenerated after an annual prepayment: 24 invoices, 12 paid
Wit_C2_SecondWindow ==
    \E c \in Clients : Cardinality(Paid(c)) = 12 /\ Cardinality(Pend(c)) = 12

(* C3  Idempotence: a call of ensure_future_invoices for a subscriber      *)
(* whose previous request already ran the scheduler to its end, with no    *)
(* payment confirmation in between, inserts nothing: the invoices table    *)
(* is left as the first call left it.                                      *)
Thm_C3_Idempotent ==
    [][ \A c \in Clients :
          (EnsuredOk(c) /\ lastOp'.client = c /\ lastOp'.ensured \in {"ok", "failed"})
              => invoices' = invoices ]_vars

\* a call that found the window already filled by the call before it
Wit_C3_SecondCall ==
    \E c \in Clients :
        /\ lastOp.op = "ensure" /\ EnsuredOk(c) /\ Priced(c)
        /\ lastOp.inserted = 0
        /\ Paid(c) = {}
        /\ Cardinality(Pend(c)) = 12

(* C4  Consecutive coverage, as claimed: right after a successful call of  *)
(* ensure_future_invoices every month between the earliest and the latest *)
(* pending due date has a pending invoice.                                 *)
Orig_C4_PendingConsecutive ==
    \A c \in Clients :
        EnsuredOk(c) => Span(MonthsOf(Pend(c))) \subseteq MonthsOf(Pend(c))

(* C4  as amended: right after a successful call of                        *)
(* ensure_future_invoices every month between the earliest and the latest *)
(* pending due date has an invoice of the subscriber, pending or paid.     *)
Thm_C4_Coverage ==
    \A c \in Clients :
        EnsuredOk(c) => Span(MonthsOf(Pend(c))) \subseteq MonthsOf(Mine(c))

\* a call that followed the payment of an invoice that was not the earliest
Wit_C4_PaidInside ==
    \E c \in Clients :
        /\ EnsuredOk(c)
        /\ \E i \in Paid(c) : \E lo \in Pend(c), hi \in Pend(c) :
              /\ MonthIndex(invoices[lo].due_date) < MonthIndex(invoices[i].due_date)
              /\ MonthIndex(invoices[i].due_date) < MonthIndex(invoices[hi].due_date)

\* the first due date as the rule states it, from firstOrderDate
ClaimedFirstDue(firstOrderDate) ==
    LET freeUntil == AddDays(firstOrderDate, 30)
        tenth == Date(freeUntil.year, freeUntil.month, 10)
    IN  IF ToOrdinal(tenth) < ToOrdinal(freeUntil)
        THEN IF freeUntil.month = 12 THEN Date(freeUntil.year + 1, 1, 10)
             ELSE Date(freeUntil.year, freeUntil.month + 1, 10)
        ELSE tenth

(* C5  First due date rule: for a subscriber with no invoice at all, with  *)
(* freeUntil = firstOrderDate + 30 days, the first invoice generated is    *)
(* due on the 10th of freeUntil's month, unless that 10th is earlier than  *)
(* freeUntil: then it is due on the 10th of the following month, December  *)
(* rolling to January of the next year.                                    *)
Thm_C5_FirstDueDate ==
    \A c \in Clients :
        Mine(c) # {} =>
            LET first == CHOOSE i \in Mine(c) : \A j \in Mine(c) : i <= j
                firstOrderDate == orders[c][1].order_date
            IN  /\ ToOrdinal(AddDays(firstOrderDate, 30)) = ToOrdinal(firstOrderDate) + 30
                /\ invoices[first].due_date = ClaimedFirstDue(firstOrderDate)

\* first order on 2024-01-15: the first invoice is due on 2024-03-10
Wit_C5_January15 ==
    /\ orders[1] = << Order(10000, 1, Date(2024, 1, 15)) >>
    /\ invoices # << >>
    /\ invoices[1].due_date = Date(2024, 3, 10)

\* creation date of the first order of c that yields a monthly amount
YieldingOrderDate(c) ==
    LET yields == {k \in 1..Len(orders[c]) :
                      \/ orders[c][k].total_monthly > 0
                      \/ /\ orders[c][k].product_id \in 1..Len(products)
                         /\ products[orders[c][k].product_id].price_monthly > 0}
    IN  IF yields = {} THEN NoDate
        ELSE orders[c][CHOOSE k \in yields : \A n \in yields : k <= n].order_date

(* C6  Grace period: no invoice of a subscriber ever has a due date        *)
(* earlier than firstOrderDate + 30 days, firstOrderDate being the         *)
(* creation date of the order that yields the monthly amount.              *)
Thm_C6_GracePeriod ==
    \A c \in Clients :
        YieldingOrderDate(c) # NoDate =>
            \A i \in Mine(c) :
                ToOrdinal(invoices[i].due_date) >= ToOrdinal(YieldingOrderDate(c)) + 30

\* invoices of a later call exist beside those of the first call
Wit_C6_LaterCall ==
    \E c \in Clients :
        YieldingOrderDate(c) # NoDate /\ Cardinality(Mine(c)) > 12

(* C7  Sequence continuation: when the subscriber already has an invoice,  *)
(* paid or pending, the invoices a scheduler call generates are due on the *)
(* 10th of the months that follow the month of the latest existing due     *)
(* date, one per month, in order.                                          *)
Thm_C7_Continuation ==
    [][ \A c \in Clients :
          (Mine(c) # {} /\ lastOp'.client = c /\ Len(invoices') > Len(invoices))
              => LET latest == CHOOSE m \in MonthsOf(Mine(c)) :
                                  \A n \in MonthsOf(Mine(c)) : n <= m
                 IN  \A k \in 1..(Len(invoices') - Len(invoices)) :
                         LET new == invoices'[Len(invoices) + k]
                         IN  /\ new.client_id = c
                             /\ new.due_date.day = 10
                             /\ new.due_date.month \in 1..12
                             /\ MonthIndex(new.due_date) = latest + k ]_vars

\* a call continued a sequence that ended in December with a January
Wit_C7_NextJanuary ==
    \E c \in Clients :
        /\ EnsuredOk(c) /\ lastOp.inserted > 0
        /\ Cardinality(Mine(c)) > lastOp.inserted
        /\ invoices[Len(invoices) - lastOp.inserted + 1].due_date.month = 1

\* today - due_date, in days, on the day of the last request
Delta(i) == ToOrdinal(lastOp.today) - ToOrdinal(invoices[i].due_date)

\* the status of the dashboard returned last is the one the pending invoices
\* of c determine
StatusAsClaimed(c) ==
    LET over == \E i \in Pend(c) : Delta(i) > 3
        near == \E i \in Pend(c) : 0 <= Delta(i) /\ Delta(i) <= 3
        status == lastOp.info.status_global
    IN  /\ status = "overdue" <=> over
        /\ status = "warning" <=> (~ over /\ near)
        /\ status = "ok" <=> (~ over /\ ~ near)

(* C8  Dashboard global status, as claimed: get_financial_dashboard        *)
(* returns overdue iff some pending invoice of the subscriber has          *)
(* delta = today - due_date > 3, warning iff none has delta > 3 and some   *)
(* has 0 <= delta <= 3, ok otherwise.                                      *)
Orig_C8_GlobalStatus ==
    DashboardReturned => StatusAsClaimed(lastOp.client)

(* C8  as amended: when get_financial_dashboard obtains a connection and   *)
(* its read of the invoice store succeeds, it returns overdue iff some     *)
(* pending invoice has delta > 3, warning iff none has delta > 3 and some  *)
(* has 0 <= delta <= 3, ok otherwise.                                      *)
Thm_C8_GlobalStatus ==
    (lastOp.op = "dashboard" /\ lastOp.read = "ok") => StatusAsClaimed(lastOp.client)

\* invoice due 2024-03-10 read on 2024-03-14: overdue
Wit_C8_FourDaysLate ==
    /\ lastOp.op = "dashboard" /\ lastOp.read = "ok"
    /\ lastOp.today = Date(2024, 3, 14)
    /\ \E i \in Pend(lastOp.client) : invoices[i].due_date = Date(2024, 3, 10)
    /\ lastOp.info.status_global = "overdue"

\* the most severe bucket among the rows classified so far
MostSevere(info) ==
    LET labels == {info.invoices[k].status_label : k \in 1..Len(info.invoices)}
    IN  IF "ATRASADO" \in labels THEN "overdue"
        ELSE IF "VENCE HOJE" \in labels THEN "warning" ELSE "ok"

\* status and message agree with each other and with that bucket
MessageNamesStatus(info) ==
    /\ info.status_global = MostSevere(info)
    /\ info.message = "BLOQUEADO (FATURA ATRASADA)" <=> info.status_global = "overdue"
    /\ info.message = "VENCE HOJE" <=> info.status_global = "warning"
    /\ info.message = "EM DIA" <=> info.status_global = "ok"

(* C9  Overdue precedence: within one pass, in whatever order the rows are *)
(* processed, once status_global is overdue no later row downgrades it or  *)
(* overwrites the overdue message, and the message names the most severe   *)
(* bucket present: blocked iff overdue, due today iff warning, current iff *)
(* ok.                                                                     *)
Thm_C9_OverduePrecedence ==
    [][ /\ passInfo.status_global = "overdue" =>
              /\ passInfo'.status_global = "overdue"
              /\ passInfo'.message = "BLOQUEADO (FATURA ATRASADA)"
        /\ MessageNamesStatus(passInfo') ]_vars

\* a row due today was classified after an overdue one
Wit_C9_DueTodayAfterOverdue ==
    /\ passInfo.status_global = "overdue"
    /\ Len(passInfo.invoices) >= 2
    /\ passInfo.invoices[Len(passInfo.invoices)].status_label = "VENCE HOJE"

\* the label a delta determines
LabelAsClaimed(delta) ==
    IF delta > 3 THEN "ATRASADO"
    ELSE IF delta >= 0 THEN "VENCE HOJE"
    ELSE "EM ABERTO (FUTURA)"

(* C10  Per-invoice label: every invoice of the dashboard result carries   *)
(* the label its delta = today - due_date determines: overdue when         *)
(* delta > 3, due today when 0 <= delta <= 3, open future when delta < 0;  *)
(* the invoices with delta < 0 have no part in status_global and message.  *)
Thm_C10_Labels ==
    lastOp.op = "dashboard" =>
        LET info == lastOp.info
            listed == {info.invoices[k].id : k \in 1..Len(info.invoices)}
            over == \E i \in listed : Delta(i) > 3
            near == \E i \in listed : 0 <= Delta(i) /\ Delta(i) <= 3
        IN  /\ \A k \in 1..Len(info.invoices) :
                  info.invoices[k].status_label = LabelAsClaimed(Delta(info.invoices[k].id))
            /\ info.status_global =
                  (IF over THEN "overdue" ELSE IF near THEN "warning" ELSE "ok")
            /\ info.message =
                  (IF over THEN "BLOQUEADO (FATURA ATRASADA)"
                   ELSE IF near THEN "VENCE HOJE" ELSE "EM DIA")

\* a result that lists future invoices after one that is due
Wit_C10_FutureAfterDue ==
    /\ lastOp.op = "dashboard"
    /\ lastOp.info.status_global = "warning"
    /\ \E k \in 1..Len(lastOp.info.invoices) :
          lastOp.info.invoices[k].status_label = "EM ABERTO (FUTURA)"

\* the invoices field of the dashboard returned last lists each pending
\* invoice of c once, and nothing else, by ascending due date
ListsPendingAscending(c) ==
    LET list == lastOp.info.invoices
    IN  /\ {list[k].id : k \in 1..Len(list)} = Pend(c)
        /\ Len(list) = Cardinality(Pend(c))
        /\ \A k \in 1..(Len(list) - 1) :
              ~ DateLT(invoices[list[k + 1].id].due_date, invoices[list[k].id].due_date)

(* C11  Dashboard invoice list, as claimed: the invoices field returned by *)
(* get_financial_dashboard holds exactly the pending invoices of the       *)
(* subscriber, in ascending due_date order.                                *)
Orig_C11_InvoiceList ==
    DashboardReturned => ListsPendingAscending(lastOp.client)

(* C11  as amended: when get_financial_dashboard obtains a connection and  *)
(* its read of the invoices succeeds, the invoices field it returns holds  *)
(* exactly the pending invoices of the subscriber (no paid invoice, no     *)
(* invoice of another subscriber), in ascending due_date order.            *)
Thm_C11_InvoiceList ==
    (lastOp.op = "dashboard" /\ lastOp.read = "ok")
        => ListsPendingAscending(lastOp.client)

\* a dashboard read beside a paid invoice due before the pending ones, in a
\* store that also holds pending invoices of another subscriber
Wit_C11_PaidLeftOut ==
    /\ lastOp.op = "dashboard" /\ lastOp.read = "ok"
    /\ lastOp.info.invoices # << >>
    /\ \E i \in Paid(lastOp.client) : \E j \in Pend(lastOp.client) :
          DateLT(invoices[i].due_date, invoices[j].due_date)
    /\ \E d \in Clients \ {lastOp.client} : Pend(d) # {}

\* sum of the amounts of a set of invoices
RECURSIVE SumAmounts(_)
SumAmounts(ids) ==
    IF ids = {} THEN 0
    ELSE LET i == CHOOSE j \in ids : TRUE
         IN  invoices[i].amount + SumAmounts(ids \ {i})

\* the totals of the dashboard returned last are those of the pending
\* invoices of c
TotalsOfPending(c) ==
    LET info == lastOp.info
    IN  /\ info.total_pending = SumAmounts(Pend(c))
        /\ 100 * info.total_annual_discounted = 90 * info.total_pending
        /\ info.annual_savings = info.total_pending - info.total_annual_discounted
        /\ info.total_annual_discounted + info.annual_savings = info.total_pending
        /\ Pend(c) = {} =>
              /\ info.total_pending = 0
              /\ info.total_annual_discounted = 0
              /\ info.annual_savings = 0

(* C12  Discount totals, as claimed: in the result of                      *)
(* get_financial_dashboard total_pending is the sum of the amounts of all  *)
(* pending invoices of the subscriber, total_annual_discounted is 90% of   *)
(* it, annual_savings is the difference, and all three are zero when       *)
(* there is no pending invoice.                                            *)
Orig_C12_DiscountTotals ==
    DashboardReturned => TotalsOfPending(lastOp.client)

(* C12  as amended: when get_financial_dashboard obtains a connection and  *)
(* its read of the invoices succeeds, total_pending is the sum of the      *)
(* amounts of all pending invoices of the subscriber,                      *)
(* total_annual_discounted is 90% of it, annual_savings is the difference  *)
(* (discounted + savings = total_pending), and all three are zero when     *)
(* there is no pending invoice.                                            *)
Thm_C12_DiscountTotals ==
    (lastOp.op = "dashboard" /\ lastOp.read = "ok") => TotalsOfPending(lastOp.client)

\* totals of a window whose 90% is not a whole number of cents
Wit_C12_FractionOfCent ==
    /\ lastOp.op = "dashboard" /\ lastOp.read = "ok"
    /\ Paid(lastOp.client) # {}
    /\ lastOp.info.total_pending > 0
    /\ lastOp.info.total_annual_discounted % 10 # 0

(* C13  Scheduler before read: get_financial_dashboard runs                *)
(* ensure_future_invoices to its end, commit included, before it reads     *)
(* the invoices: for a subscriber with a discoverable price, a dashboard   *)
(* call that meets no store error lists 12 pending invoices, those         *)
(* inserted during that same call included.                                *)
Thm_C13_SchedulerBeforeRead ==
    \A c \in Clients :
        (lastOp.op = "dashboard" /\ EnsuredOk(c) /\ lastOp.read = "ok" /\ Priced(c))
            => LET list == lastOp.info.invoices
                   listed == {list[k].id : k \in 1..Len(list)}
               IN  /\ Len(list) = 12
                   /\ \A i \in (Len(invoices) - lastOp.inserted + 1)..Len(invoices) :
                         i \in listed

\* a dashboard call that inserted invoices and lists them
Wit_C13_InsertedAndListed ==
    /\ lastOp.op = "dashboard" /\ lastOp.ensured = "ok" /\ lastOp.read = "ok"
    /\ lastOp.inserted > 0
    /\ lastOp.info.invoices[12].id = Len(invoices)

Orig_C15_AllOrNothing ==
    [][ (lastOp'.op \in {"ensure", "dashboard"} /\ lastOp'.ensured # "ok")
            => /\ invoices' = invoices
               /\ lastOp'.ensured = "failed" ]_vars

(* C16  Dashboard fail-open: when get_financial_dashboard cannot obtain a  *)
(* connection or its read of the invoices fails, it returns the default    *)
(* result: status_global ok, the current message, an empty list and three  *)
(* zero totals, whatever the store holds, invoices overdue by more than 3  *)
(* days included.                                                          *)
Thm_C16_FailOpen ==
    (lastOp.op = "dashboard" /\ lastOp.read = "failed")
        => /\ lastOp.info.status_global = "ok"
           /\ lastOp.info.message = "EM DIA"
           /\ lastOp.info.invoices = << >>
           /\ lastOp.info.total_pending = 0
           /\ lastOp.info.total_annual_discounted = 0
           /\ lastOp.info.annual_savings = 0

\* a failed read while an invoice is more than 3 days past due
Wit_C16_OverdueMasked ==
    /\ lastOp.op = "dashboard" /\ lastOp.read = "failed"
    /\ \E i \in Pend(lastOp.client) : Delta(i) > 3

\* row i of the table (the invoice with id i) keeps what identifies it
SameInvoice(i) ==
    /\ invoices'[i].client_id = invoices[i].client_id
    /\ invoices'[i].due_date = invoices[i].due_date
    /\ invoices'[i].amount = invoices[i].amount

(* C18  Invoice lifecycle: over any sequence of scheduler calls, dashboard *)
(* calls and payment confirmations, no invoice is ever deleted, an invoice *)
(* whose status is paid never returns to pending, and the only status      *)
(* transition is pending to paid.                                          *)
Thm_C18_Lifecycle ==
    [][ /\ Len(invoices') >= Len(invoices)
        /\ \A i \in 1..Len(invoices) :
              /\ SameInvoice(i)
              /\ invoices[i].status = "paid" => invoices'[i].status = "paid"
              /\ invoices'[i].status # invoices[i].status
                    => invoices[i].status = "pending" /\ invoices'[i].status = "paid"
      ]_vars

\* one confirmation delivered twice, then a scheduler call that inserted
Wit_C18_RedeliveredThenRefilled ==
    /\ deliveries = 2 /\ Cardinality(notified) = 1
    /\ lastOp.op \in {"ensure", "dashboard"} /\ lastOp.inserted > 0
    /\ \E i \in Paid(lastOp.client) : TRUE

(* C19  paid_at discipline, as claimed: paid_at of an invoice is written   *)
(* only in the step that moves the invoice from pending to paid; it is     *)
(* unset while the invoice is pending and, once set, is not changed by any *)
(* later event, a second delivery of the same single-invoice payment       *)
(* confirmation included.                                                  *)
Orig_C19_PaidAtOnce ==
    [][ \A i \in 1..Len(invoices') :
          /\ invoices'[i].status = "pending" => invoices'[i].paid_at = NoTime
          /\ (i <= Len(invoices) /\ invoices'[i].paid_at # invoices[i].paid_at)
                => invoices[i].status = "pending" /\ invoices'[i].status = "paid"
      ]_vars

\* subscriber c has a pending invoice more than 3 days past due today
OverdueNow(c) ==
    \E i \in Pend(c) : DaysBetween(Today, invoices[i].due_date) > 3

(* C20  Overdue gate: in the absence of data-access failures, an           *)
(* update_briefing request by a subscriber who has a pending invoice more  *)
(* than 3 days past due is answered 403 and leaves the briefing row        *)
(* unchanged (colors, style, sections, status and remaining revisions).    *)
Thm_C20_OverdueGate ==
    [][ \A c \in Clients :
          ( /\ OverdueNow(c)
            /\ lastOp'.op = "update_briefing" /\ lastOp'.client = c
            /\ lastOp'.ensured = "ok" /\ lastOp'.read = "ok" )
          => /\ lastOp'.code = 403
             /\ briefings'[c] = briefings[c]
      ]_vars

\* a rejected edit of a briefing that has revisions left and was edited before
Wit_C20_RejectedEdit ==
    /\ lastOp.op = "update_briefing" /\ lastOp.code = 403
    /\ lastOp.ensured = "ok" /\ lastOp.read = "ok"
    /\ lastOp.info.status_global = "overdue"
    /\ OverdueNow(lastOp.client)
    /\ briefings[lastOp.client] # << >>
    /\ briefings[lastOp.client][1].status = "ativo"
    /\ briefings[lastOp.client][1].revisoes_restantes > 0

\* both calls in progress have ended
BothDone == tx # NoTx /\ \A t \in DOMAIN tx : tx[t].pc = "done"

(* C17  Concurrent scheduler calls, as claimed: when two invocations of    *)
(* ensure_future_invoices for the same subscriber interleave, each in its  *)
(* own transaction, then after both have committed no two invoices of the  *)
(* subscriber share a due date and the subscriber has no more than 12      *)
(* pending invoices.                                                       *)
Orig_C17_ConcurrentCalls ==
    BothDone =>
        \A c \in Clients :
            /\ \A i, j \in Mine(c) :
                  invoices[i].due_date = invoices[j].due_date => i = j
            /\ Cardinality(Pend(c)) <= WINDOW

\* the last call was made by the scheduler or the dashboard for subscriber c
CoreCall(c) ==
    lastOp'.op \in {"ensure", "dashboard"} /\ lastOp'.client = c

(* C21  Core only reads status: ensure_future_invoices and                 *)
(* get_financial_dashboard never change the status, amount, due_date or    *)
(* paid_at of an invoice that already exists and never touch invoices of   *)
(* another subscriber; the only change they make to the store is the       *)
(* insertion of new pending invoices for the given subscriber.             *)
Thm_C21_CoreOnlyInserts ==
    [][ \A c \in Clients :
          CoreCall(c)
          => /\ Len(invoices') >= Len(invoices)
             /\ \A i \in 1..Len(invoices) : invoices'[i] = invoices[i]
             /\ \A i \in (Len(invoices) + 1)..Len(invoices') :
                   /\ invoices'[i].client_id = c
                   /\ invoices'[i].status = "pending"
      ]_vars

\* a dashboard call that inserted into a store holding paid and pending
\* invoices of another subscriber
Wit_C21_InsertedBesideOthers ==
    /\ lastOp.op = "dashboard" /\ lastOp.inserted > 0
    /\ \E d \in Clients \ {lastOp.client} : Paid(d) # {} /\ Pend(d) # {}

\* the 10th of the month i calendar months after month m of year y
TenthAfter(m, y, i) ==
    IF m + i <= 12 THEN Date(y, m + i, 10) ELSE Date(y + 1, m + i - 12, 10)

\* the call followed has computed its anchor
Anchored(t) == t \in DOMAIN tx /\ tx[t].pc \in {"loop", "commit"}

(* C22  Month rollover: for every anchor month 1..12, anchor year and i in *)
(* 1..12, the i-th generated due date is the 10th of the month obtained by *)
(* adding i calendar months to the anchor month, with the year incremented *)
(* exactly when the month count passes December (anchor month 12, i = 1    *)
(* gives month 1 of the next year; anchor month 12, i = 12 gives month 12  *)
(* of the next year).                                                      *)
Thm_C22_MonthRollover ==
    \A t \in DOMAIN tx :
        (Anchored(t) /\ tx[t].anchor.start_month \in 1..12)
        => \A i \in 1..Len(tx[t].writes) :
              /\ i <= 12
              /\ tx[t].writes[i].due_date =
                    TenthAfter(tx[t].anchor.start_month, tx[t].anchor.start_year, i)

\* anchor December 2024: the first due date is in January 2025, the twelfth
\* in December 2025
Wit_C22_DecemberAnchor ==
    /\ Anchored(1)
    /\ tx[1].anchor = [start_month |-> 12, start_year |-> 2024]
    /\ Len(tx[1].writes) = 12
    /\ tx[1].writes[1].due_date = Date(2025, 1, 10)
    /\ tx[1].writes[12].due_date = Date(2025, 12, 10)

\* what order k of subscriber c yields: its own recurring amount if positive,
\* otherwise its linked product's recurring price if positive, otherwise 0
Yield(c, k) ==
    LET o == orders[c][k]
    IN  IF o.total_monthly > 0 THEN o.total_monthly
        ELSE IF o.product_id \in 1..Len(products)
                /\ products[o.product_id].price_monthly > 0
             THEN products[o.product_id].price_monthly
             ELSE 0

\* the orders of c that yield a positive value
Yielding(c) == {k \in 1..Len(orders[c]) : Yield(c, k) > 0}

\* the first of them
FirstYielding(c) == CHOOSE k \in Yielding(c) : \A n \in Yielding(c) : k <= n

\* recurring prices of the active products
ActivePrices ==
    {products[q].price_monthly : q \in {p \in 1..Len(products) :
        products[p].is_active /\ products[p].price_monthly > 0}}

(* C23  Monthly amount selection: scanning the subscriber's orders in      *)
(* ascending order, the monthly amount is the first positive value met,    *)
(* taking for each order its own recurring amount if positive and          *)
(* otherwise its linked product's recurring price if positive; only when   *)
(* no order yields a positive value is the recurring price of an active    *)
(* product used.                                                           *)
Thm_C23_AmountSelection ==
    \A c \in Clients :
        /\ \A i \in Mine(c) :
              IF Yielding(c) # {}
              THEN invoices[i].amount = Yield(c, FirstYielding(c))
              ELSE invoices[i].amount \in ActivePrices
        /\ (EnsuredOk(c) /\ (Yielding(c) # {} \/ ActivePrices # {})) => Mine(c) # {}

\* the second order yields through its linked, retired product while a later
\* order has its own amount and an active product has a price
Wit_C23_LinkedBeforeOwn ==
    /\ products = CatalogA
    /\ Len(orders[1]) = 3
    /\ Yield(1, 1) = 0
    /\ orders[1][2].total_monthly = 0 /\ orders[1][2].product_id = 2
    /\ orders[1][3].total_monthly = 3330
    /\ Mine(1) # {}
    /\ \A i \in Mine(1) : invoices[i].amount = 5000

(* C24  firstOrderDate: the date from which the 30-day grace period is     *)
(* counted is the creation date of the order that yielded the monthly      *)
(* amount (the scan stops at that order), not the date of any earlier or   *)
(* later order of the subscriber.                                          *)
Thm_C24_FirstOrderDate ==
    \A c \in Clients :
        (Yielding(c) # {} /\ Mine(c) # {})
        => LET first == CHOOSE i \in Mine(c) : \A j \in Mine(c) : i <= j
           IN  invoices[first].due_date =
                   ClaimedFirstDue(orders[c][FirstYielding(c)].order_date)

\* the second of three orders yields: the first invoice is due on 2024-02-10
Wit_C24_MiddleOrder ==
    /\ Len(orders[1]) = 3
    /\ Yielding(1) # {} /\ FirstYielding(1) = 2
    /\ orders[1][2].order_date = Date(2023, 12, 16)
    /\ Mine(1) # {}
    /\ invoices[1].due_date = Date(2024, 2, 10)

\* the monthly amounts a call for subscriber c may compute
ComputedAmounts(c) ==
    {PriceBasis(orders[c], products, Today, p).monthly_price :
        p \in DefaultProds(products)}

(* C25  Invoice creation invariant: every invoice inserted by              *)
(* ensure_future_invoices has status pending, an amount strictly greater   *)
(* than 0 equal to the monthly amount computed in that call, a due date on *)
(* the 10th day of a month, and no paid_at.                                *)
Thm_C25_CreatedInvoice ==
    [][ \A c \in Clients :
          CoreCall(c)
          => \E amount \in ComputedAmounts(c) :
                \A i \in (Len(invoices) + 1)..Len(invoices') :
                    /\ invoices'[i].status = "pending"
                    /\ invoices'[i].amount > 0
                    /\ invoices'[i].amount = amount
                    /\ invoices'[i].due_date.day = 10
                    /\ invoices'[i].due_date.month \in 1..12
                    /\ invoices'[i].paid_at = NoTime
      ]_vars

\* twelve invoices of 3.33 inserted by one call
Wit_C25_TwelveCreated ==
    /\ lastOp.op = "ensure" /\ lastOp.inserted = 12
    /\ Len(invoices) = 12
    /\ \A i \in 1..12 : invoices[i].amount = 3330 /\ invoices[i].status = "pending"

(* C26  Gap-free history: in every state reachable by non-overlapping      *)
(* scheduler calls, dashboard calls and payment confirmations, the due     *)
(* dates of all invoices of a subscriber (paid and pending together) are   *)
(* the 10th of consecutive months with no month missing between the        *)
(* earliest and the latest.                                                *)
Thm_C26_GapFree ==
    \A c \in Clients :
        /\ \A i \in Mine(c) : invoices[i].due_date.day = 10
        /\ MonthsOf(Mine(c)) = Span(MonthsOf(Mine(c)))

\* a history of more than one call, with paid invoices in it
Wit_C26_TwoBatches ==
    \E c \in Clients :
        /\ Cardinality(Mine(c)) > 12
        /\ Paid(c) # {}
        /\ Cardinality(MonthsOf(Mine(c))) = Cardinality(Mine(c))

(* C28  Confirmation redelivery is idempotent, as claimed: processing the  *)
(* same approved payment notification a second time (single invoice or     *)
(* annual) changes no invoice: the status and paid_at of every invoice are *)
(* the same as after its first processing, whatever scheduler and          *)
(* dashboard calls happened between the two deliveries.                    *)
Orig_C28_RedeliveryIdempotent ==
    [][ (lastOp'.op = "webhook" /\ lastOp'.read = "ok" /\ lastOp'.ref \in notified)
            => invoices' = invoices ]_vars

\* the invoices the step marks paid
MarkedPaid ==
    {i \in 1..Len(invoices) :
        invoices[i].status = "pending" /\ invoices'[i].status = "paid"}

(* C27  Annual prepayment covers what was quoted, as claimed: when an      *)
(* approved annual payment confirmation is processed, the invoices it      *)
(* marks paid are exactly the invoices that were pending and summed in the *)
(* pay_annual quote for that payment; an invoice created by the scheduler  *)
(* after the quote, or one paid individually after the quote, does not     *)
(* change the set marked paid.                                             *)
Orig_C27_QuotedArePaid ==
    [][ \A c \in Clients :
          ( /\ lastOp'.op = "webhook" /\ lastOp'.read = "ok"
            /\ lastOp'.ref = Ref("ANNUAL", c)
            /\ Ref("ANNUAL", c) \notin notified
            /\ quoted[c] # {} )
          => MarkedPaid = quoted[c] ]_vars

(* C29  Connection release, as claimed: every connection taken from the    *)
(* pool by ensure_future_invoices, get_financial_dashboard and             *)
(* mercadopago_webhook is returned to the pool exactly once on every path  *)
(* (normal completion, early return, exception), so the number of          *)
(* checked-out connections is zero whenever no request is in flight and    *)
(* the pool of 20 is never exhausted by completed requests.                *)
Orig_C29_ConnectionRelease ==
    checkedOut = 0

(* C30  Revision budget, as claimed: a briefing's revisoes_restantes is    *)
(* never negative; update_briefing rejects the request when it is 0 or     *)
(* less and otherwise decrements it by exactly 1, and this holds for every *)
(* interleaving of concurrent update_briefing requests by the same         *)
(* subscriber.                                                             *)
Orig_C30_RevisionBudget ==
    [][ \A c \in Clients : \A k \in 1..Len(briefings[c]) :
          /\ briefings'[c][k].revisoes_restantes >= 0
          /\ briefings'[c][k] # briefings[c][k]
                => /\ briefings[c][k].revisoes_restantes > 0
                   /\ briefings'[c][k].revisoes_restantes =
                          briefings[c][k].revisoes_restantes - 1
      ]_vars

====
